---- MODULE Spec2Model ----
(***************************************************************************)
(* The user API of SimpleAndLightweightERP: the users table, the JWT gate, *)
(* the two authorization predicates and the register / login / CRUD        *)
(* handlers, as a state machine.  One action per handler; a handler that   *)
(* awaits bcrypt.hash is split at the await (Start / Finish), everything   *)
(* between two awaits is one atomic step of the single-threaded server.    *)
(***************************************************************************)
EXTENDS Integers, Sequences, FiniteSets, Bags, TLC

VARIABLES
    columns,   \* the columns of table users
    users,     \* the rows of table users
    nextId,    \* supply of uuidv4(): the next id never handed out before
    now,       \* the clock, in token lifetimes
    tokens,    \* signed tokens that clients hold
    pending,   \* bag of handlers suspended at await bcrypt.hash
    res,       \* the last response sent
    sent,      \* the number of requests received
    deleted,   \* history: the ids whose row DELETE removed
    admins0,   \* history: the ids that were admin in the initial store
    log        \* history: the requests of a race and their answers

vars == <<columns, users, nextId, now, tokens, pending, res, sent, deleted, admins0, log>>

----------------------------------------------------------------------------
(* Bounds of the model *)

MaxId == 3        \* uuids handed out
MaxTime == 1      \* clock ticks
MaxPending == 2   \* handlers suspended at once
MaxTokens == 1    \* tokens the clients keep
MaxRequests == 3  \* requests the clients send

(* Program constants *)

MinPasswordLength == 8
TokenLifetime == 1

----------------------------------------------------------------------------
(* JavaScript values of the request bodies *)

UNDEFINED == "<undefined>"
NULL == "<null>"

Falsy(v) == v \in {UNDEFINED, NULL, ""}

Emails == {"a@x.com", "b@x.com"}

Body(username, password, email, is_admin) ==
    [username |-> username, password |-> password, email |-> email,
     is_admin |-> is_admin]

\* bodies of POST /auth/register and POST /users
NewUserBodies ==
    {Body(u, p, e, FALSE) :
        u \in {"alice", UNDEFINED}, p \in {"password1", "short", UNDEFINED},
        e \in Emails \cup {UNDEFINED}}
    \cup {Body("alice", "password1", e, TRUE) : e \in Emails}

\* bodies of PUT /users/:id
UpdateBodies ==
    {Body(u, p, e, FALSE) :
        u \in {"bob", UNDEFINED}, p \in {"short", UNDEFINED},
        e \in Emails \cup {UNDEFINED}}
    \cup {Body("bob", UNDEFINED, UNDEFINED, TRUE)}
    \cup {Body(NULL, UNDEFINED, UNDEFINED, FALSE), Body(UNDEFINED, UNDEFINED, NULL, FALSE)}

\* bodies of POST /auth/login
LoginBodies ==
    {Body(UNDEFINED, p, e, FALSE) :
        p \in {"password1", "short", UNDEFINED}, e \in Emails \cup {UNDEFINED}}

EmptyBody == Body(UNDEFINED, UNDEFINED, UNDEFINED, FALSE)

Ids == 1..MaxId
NoId == 0

----------------------------------------------------------------------------
(* bcrypt *)

BcryptHash(password) == "$2b$10$" \o password

BcryptCompare(password, hash) == hash = BcryptHash(password)

----------------------------------------------------------------------------
(* Table users *)

TableColumns == {"id", "username", "password_hash", "email", "created_at"}

IsAdminDefault == FALSE

NotNullColumns == {"username", "password_hash", "email"}

SelectById(table, id) == {r \in table : r.id = id}

SelectByEmail(table, email) == {r \in table : r.email = email}

\* stmt.get(): the row found, as a sequence of length 0 or 1
GetRow(rows) == IF rows = {} THEN <<>> ELSE <<CHOOSE r \in rows : TRUE>>

\* db.prepare(): a statement naming a column the table lacks does not compile
Prepare(cols) == IF cols \subseteq columns THEN "OK" ELSE "SQLITE_ERROR"

\* INSERT INTO users: the error code, or "OK"
InsertCode(table, row) ==
    IF \E c \in NotNullColumns : row[c] = NULL THEN "SQLITE_CONSTRAINT_NOTNULL"
    ELSE IF \E r \in table : r.id = row.id THEN "SQLITE_CONSTRAINT_PRIMARYKEY"
    ELSE IF \E r \in table : r.email = row.email THEN "SQLITE_CONSTRAINT_UNIQUE"
    ELSE "OK"

\* a row after SET: set is a function from the staged columns to their values
Assign(row, set) ==
    [c \in DOMAIN row |-> IF c \in DOMAIN set THEN set[c] ELSE row[c]]

\* UPDATE as it would run if the email column were not declared UNIQUE
UpdateCodeEmailNotUnique(table, id, set) ==
    IF SelectById(table, id) = {} THEN "OK"
    ELSE IF \E c \in DOMAIN set : c \in NotNullColumns /\ set[c] = NULL
         THEN "SQLITE_CONSTRAINT_NOTNULL"
    ELSE "OK"

\* UPDATE as it would run if the row's own email counted as a collision
UpdateCodeOwnEmailCollides(table, id, set) ==
    IF SelectById(table, id) = {} THEN "OK"
    ELSE IF \E c \in DOMAIN set : c \in NotNullColumns /\ set[c] = NULL
         THEN "SQLITE_CONSTRAINT_NOTNULL"
    ELSE IF "email" \in DOMAIN set
            /\ \E r \in table : r.email = set["email"]
         THEN "SQLITE_CONSTRAINT_UNIQUE"
    ELSE "OK"

\* UPDATE users SET ... WHERE id = ?: the error code, or "OK"
UpdateCode(table, id, set) ==
    IF SelectById(table, id) = {} THEN "OK"
    ELSE IF \E c \in DOMAIN set : c \in NotNullColumns /\ set[c] = NULL
         THEN "SQLITE_CONSTRAINT_NOTNULL"
    ELSE IF "email" \in DOMAIN set
            /\ \E r \in table : r.id # id /\ r.email = set["email"]
         THEN "SQLITE_CONSTRAINT_UNIQUE"
    ELSE "OK"

\* the statement as it would run if it added the changed row beside the old
UpdateRowsKeepingOld(table, id, set) ==
    table \cup {Assign(r, set) : r \in SelectById(table, id)}

\* the statement as it would run without its WHERE clause
UpdateRowsWithoutWhere(table, id, set) ==
    {Assign(r, set) : r \in table}

UpdateRows(table, id, set) ==
    {IF r.id = id THEN Assign(r, set) ELSE r : r \in table}

\* the statement as it would run without its WHERE clause
DeleteRowsWithoutWhere(table, id) == {}

DeleteRows(table, id) == {r \in table : r.id # id}

IsConstraint(code) ==
    code \in {"SQLITE_CONSTRAINT_NOTNULL", "SQLITE_CONSTRAINT_PRIMARYKEY",
              "SQLITE_CONSTRAINT_UNIQUE"}

\* the projection as it would be if the handler returned the row as read
WithoutPasswordKept(row) == row

\* { password_hash, ...user }: the row without its password_hash
WithoutPassword(row) == [c \in DOMAIN row \ {"password_hash"} |-> row[c]]

\* SELECT * FROM users WHERE id = ? and the destructuring of what it returns
GetRowWithoutPassword(table, id) ==
    LET user == GetRow(SelectById(table, id)) IN
    IF user = <<>> THEN <<>> ELSE <<WithoutPassword(user[1])>>

----------------------------------------------------------------------------
(* jsonwebtoken *)

\* a word of the Authorization header that is no token
Word(text) == [kind |-> "word", text |-> text]

\* jwt.sign(claims, JWT_SECRET, {expiresIn})
JwtSign(userId, username, email, is_admin) ==
    [kind |-> "jwt", sig |-> "valid", userId |-> userId, username |-> username,
     email |-> email, is_admin |-> is_admin, exp |-> now + TokenLifetime]

\* jwt.verify(token, JWT_SECRET): the name of the error thrown, or "OK"
JwtVerify(token) ==
    IF token.kind # "jwt" THEN "JsonWebTokenError"
    ELSE IF token.sig # "valid" THEN "JsonWebTokenError"
    ELSE IF now >= token.exp THEN "TokenExpiredError"
    ELSE "OK"

\* a token of the same claims that the server did not sign
Forge(token) == [token EXCEPT !.sig = "forged", !.is_admin = TRUE]

----------------------------------------------------------------------------
(* Middleware *)

Stop(status, error) ==
    [pass |-> FALSE, status |-> status, error |-> error, user |-> <<>>, sub |-> NoId]

\* authHeader && authHeader.split(' ')[1]
HeaderToken(header) ==
    IF Len(header) < 2 THEN <<>>
    ELSE IF header[2].kind = "word" /\ header[2].text = "" THEN <<>>
    ELSE <<header[2]>>

\* SELECT id, username, email, is_admin FROM users WHERE id = ?
GateUser(row) ==
    [id |-> row.id, username |-> row.username, email |-> row.email,
     is_admin |-> row.is_admin]

\* the gate as it would be if it trusted the claims of the token
authenticateTokenTrustingClaims(header) ==
    LET token == HeaderToken(header) IN
    IF token = <<>> THEN Stop(401, "Token não fornecido")
    ELSE LET verdict == JwtVerify(token[1]) IN
         IF verdict = "JsonWebTokenError" THEN Stop(403, "Token inválido")
         ELSE IF verdict = "TokenExpiredError" THEN Stop(403, "Token expirado")
         ELSE [pass |-> TRUE, status |-> 0, error |-> "",
               user |-> <<[id |-> token[1].userId, username |-> token[1].username,
                           email |-> token[1].email,
                           is_admin |-> token[1].is_admin]>>,
               sub |-> token[1].userId]

\* the gate as it would be if it looked the subject up before verifying
authenticateTokenLookupFirst(header) ==
    LET token == HeaderToken(header) IN
    IF token = <<>> THEN Stop(401, "Token não fornecido")
    ELSE IF token[1].kind # "jwt" THEN Stop(403, "Token inválido")
    ELSE IF Prepare({"id", "username", "email", "is_admin"}) # "OK"
         THEN [Stop(500, "Erro ao verificar token") EXCEPT !.sub = token[1].userId]
    ELSE LET user == GetRow(SelectById(users, token[1].userId))
             verdict == JwtVerify(token[1]) IN
         IF user = <<>>
         THEN [Stop(401, "Usuário não encontrado") EXCEPT !.sub = token[1].userId]
         ELSE IF verdict = "JsonWebTokenError" THEN Stop(403, "Token inválido")
         ELSE IF verdict = "TokenExpiredError" THEN Stop(403, "Token expirado")
         ELSE [pass |-> TRUE, status |-> 0, error |-> "",
               user |-> <<GateUser(user[1])>>, sub |-> token[1].userId]

authenticateToken(header) ==
    LET token == HeaderToken(header) IN
    IF token = <<>> THEN Stop(401, "Token não fornecido")
    ELSE LET verdict == JwtVerify(token[1]) IN
         IF verdict = "JsonWebTokenError" THEN Stop(403, "Token inválido")
         ELSE IF verdict = "TokenExpiredError" THEN Stop(403, "Token expirado")
         ELSE IF Prepare({"id", "username", "email", "is_admin"}) # "OK"
              THEN [Stop(500, "Erro ao verificar token") EXCEPT !.sub = token[1].userId]
         ELSE LET user == GetRow(SelectById(users, token[1].userId)) IN
              IF user = <<>>
              THEN [Stop(401, "Usuário não encontrado") EXCEPT !.sub = token[1].userId]
              ELSE [pass |-> TRUE, status |-> 0, error |-> "",
                    user |-> <<GateUser(user[1])>>, sub |-> token[1].userId]

\* the guard as it would be without the is_admin test
requireAdminUnchecked(user) ==
    IF user = <<>> THEN Stop(401, "Autenticação necessária")
    ELSE [pass |-> TRUE, status |-> 0, error |-> "", user |-> user, sub |-> user[1].id]

requireAdmin(user) ==
    IF user = <<>> THEN Stop(401, "Autenticação necessária")
    ELSE IF ~user[1].is_admin
         THEN Stop(403, "Acesso negado. Apenas administradores.")
    ELSE [pass |-> TRUE, status |-> 0, error |-> "", user |-> user, sub |-> user[1].id]

\* the guard as it would be if any authenticated caller counted as owner
requireAdminOrOwnerAnyCaller(user, id) ==
    IF user = <<>> THEN Stop(401, "Autenticação necessária")
    ELSE LET isOwner == user[1].id \in Ids
             isAdmin == user[1].is_admin IN
         IF ~isAdmin /\ ~isOwner THEN Stop(403, "Acesso negado")
         ELSE [pass |-> TRUE, status |-> 0, error |-> "", user |-> user,
               sub |-> user[1].id]

requireAdminOrOwner(user, id) ==
    IF user = <<>> THEN Stop(401, "Autenticação necessária")
    ELSE LET isOwner == user[1].id = id
             isAdmin == user[1].is_admin IN
         IF ~isAdmin /\ ~isOwner THEN Stop(403, "Acesso negado")
         ELSE [pass |-> TRUE, status |-> 0, error |-> "", user |-> user,
               sub |-> user[1].id]

\* router.METHOD(path, authenticateToken, requireAdmin, handler)
AdminRoute(header) ==
    LET a == authenticateToken(header) IN
    IF ~a.pass THEN a
    ELSE LET z == requireAdmin(a.user) IN
         IF ~z.pass THEN [z EXCEPT !.sub = a.sub] ELSE a

\* router.METHOD('/:id', authenticateToken, requireAdminOrOwner, handler)
OwnerRoute(header, id) ==
    LET a == authenticateToken(header) IN
    IF ~a.pass THEN a
    ELSE LET z == requireAdminOrOwner(a.user, id) IN
         IF ~z.pass THEN [z EXCEPT !.sub = a.sub] ELSE a

----------------------------------------------------------------------------
(* Responses *)

\* res.status(status).json(...): what the client receives
Response(op, id, sub, status, error, user, token, list) ==
    [op |-> op, status |-> status, error |-> error,
     user |-> user, token |-> token, list |-> list]

Error(op, id, sub, status, error) ==
    Response(op, id, sub, status, error, <<>>, <<>>, {})

Denied(op, id, m) == Error(op, id, m.sub, m.status, m.error)

NoResponse == Error("none", NoId, NoId, 0, "")

----------------------------------------------------------------------------
(* Initial states *)

\* what INSERT stores in a column it does not name
ColumnDefault(c) ==
    IF c = "created_at" THEN now
    ELSE IF c = "is_admin" THEN IsAdminDefault
    ELSE NULL

\* the row INSERT INTO users (DOMAIN values) VALUES (...) builds
InsertedRow(values) ==
    [c \in columns |-> IF c \in DOMAIN values THEN values[c] ELSE ColumnDefault(c)]

\* Boolean(user.is_admin)
IsAdminOf(row) == IF "is_admin" \in DOMAIN row THEN row.is_admin ELSE FALSE

\* the account a provisioned database comes with
FirstUser(is_admin) ==
    [id |-> 1, username |-> "alice", password_hash |-> BcryptHash("password1"),
     email |-> "a@x.com", is_admin |-> is_admin, created_at |-> 0]

\* a token signed for the first account while it was an administrator
FirstToken ==
    [kind |-> "jwt", sig |-> "valid", userId |-> 1, username |-> "alice",
     email |-> "a@x.com", is_admin |-> TRUE, exp |-> TokenLifetime]

\* initializeDatabase() on an empty database file: CREATE TABLE users
InitFresh ==
    /\ columns = TableColumns
    /\ users = {}
    /\ nextId = 1
    /\ tokens = {}
    /\ admins0 = {}

\* initializeDatabase() on a database file that has table users already, with
\* the is_admin column the routes read: CREATE TABLE IF NOT EXISTS leaves it
InitProvisioned ==
    \E a \in BOOLEAN :
        /\ columns = TableColumns \cup {"is_admin"}
        /\ users = {FirstUser(a)}
        /\ nextId = 2
        /\ tokens = {FirstToken}
        /\ admins0 = IF a THEN {1} ELSE {}

Init ==
    /\ InitFresh \/ InitProvisioned
    /\ now = 0
    /\ pending = EmptyBag
    /\ res = NoResponse
    /\ sent = 0
    /\ deleted = {}
    /\ log = <<>>

----------------------------------------------------------------------------
(* Clients *)

\* the tokens the clients hold after receiving one more
Hold(token) ==
    IF Cardinality(tokens \cup {token}) <= MaxTokens THEN {tokens \cup {token}}
    ELSE {tokens} \cup {(tokens \ {old}) \cup {token} : old \in tokens}

\* the Authorization headers a client can send
Headers ==
    LET presented == tokens \cup {Forge(t) : t \in tokens} \cup {Word("garbage")} IN
    {<<>>, <<Word("Bearer")>>}
    \cup {<<Word("Bearer"), t>> : t \in presented}
    \cup {<<Word("Basic"), t>> : t \in tokens}
    \cup {<<Word("Bearer"), t, Word("x")>> : t \in tokens}
    \cup {<<t>> : t \in tokens}

\* a handler may suspend while fewer than MaxPending are suspended
CanSuspend == BagCardinality(pending) < MaxPending

\* handlers suspended before their call of uuidv4()
AwaitingId == {p \in BagToSet(pending) : p.op \in {"register", "create"}}

IdsPromised ==
    LET n[S \in SUBSET AwaitingId] ==
            IF S = {} THEN 0
            ELSE LET p == CHOOSE q \in S : TRUE IN CopiesIn(p, pending) + n[S \ {p}]
    IN n[AwaitingId]

CanCreate == nextId + IdsPromised <= MaxId

Suspended(op, id, body) ==
    [op |-> op, id |-> id, username |-> body.username,
     password |-> body.password, email |-> body.email]

----------------------------------------------------------------------------
(* POST /auth/register *)

\* the validation of the body: the error it ends with, or ""
RegisterValidation(body) ==
    LET username == body.username
        password == body.password
        email == body.email
    IN
    IF Falsy(username) \/ Falsy(password) \/ Falsy(email)
    THEN "Campos obrigatórios faltando"
    ELSE IF Len(password) < MinPasswordLength THEN "Senha muito fraca"
    ELSE ""

RegisterStart(body) ==
    IF RegisterValidation(body) # ""
    THEN /\ res' = Error("register", NoId, NoId, 400, RegisterValidation(body))
         /\ UNCHANGED <<columns, users, nextId, now, tokens, pending, deleted, admins0>>
    ELSE /\ CanSuspend
         /\ CanCreate
         /\ pending' = pending (+) SetToBag({Suspended("register", NoId, body)})
         /\ UNCHANGED <<columns, users, nextId, now, tokens, res, deleted, admins0>>

\* the values as they would be if the handler bound 1 to is_admin
RegisterValuesAsAdmin(p, id) ==
    [id |-> id, username |-> p.username, password_hash |-> BcryptHash(p.password),
     email |-> p.email, is_admin |-> TRUE]

\* the values as they would be if the handler stored the password itself
RegisterValuesPlainPassword(p, id) ==
    [id |-> id, username |-> p.username, password_hash |-> p.password,
     email |-> p.email, is_admin |-> FALSE]

\* the values of INSERT INTO users (id, username, password_hash, email, is_admin)
RegisterValues(p, id) ==
    [id |-> id, username |-> p.username, password_hash |-> BcryptHash(p.password),
     email |-> p.email, is_admin |-> FALSE]

RegisterFinish(p) ==
    LET id == nextId
        values == RegisterValues(p, id)
        prepared == Prepare(DOMAIN values)
        code == IF prepared # "OK" THEN prepared
                ELSE InsertCode(users, InsertedRow(values))
        token == JwtSign(id, p.username, p.email, FALSE)
        user == [id |-> id, username |-> p.username, email |-> p.email,
                 is_admin |-> FALSE]
    IN
    /\ p.op = "register"
    /\ pending' = pending (-) SetToBag({p})
    /\ nextId' = nextId + 1
    /\ IF code = "OK"
       THEN /\ users' = users \cup {InsertedRow(values)}
            /\ tokens' \in Hold(token)
            /\ res' = Response("register", NoId, NoId, 201, "", <<user>>, <<token>>, {})
       ELSE /\ res' = IF IsConstraint(code)
                      THEN Error("register", NoId, NoId, 400, "Email já está em uso")
                      ELSE Error("register", NoId, NoId, 500, "Erro ao registrar usuário")
            /\ UNCHANGED <<users, tokens>>
    /\ UNCHANGED <<columns, now, deleted, admins0>>

----------------------------------------------------------------------------
(* POST /auth/login *)

\* the handler as it would be if it told an unknown email apart
LoginResponseNamingUnknownEmail(body) ==
    LET email == body.email
        password == body.password
        user == GetRow(SelectByEmail(users, email))
    IN
    IF Falsy(email) \/ Falsy(password)
    THEN Error("login", NoId, NoId, 400, "Campos obrigatórios faltando")
    ELSE IF user = <<>>
    THEN Error("login", NoId, NoId, 404, "Usuário não encontrado")
    ELSE IF ~BcryptCompare(password, user[1].password_hash)
    THEN Error("login", NoId, NoId, 401, "Credenciais inválidas")
    ELSE LET token == JwtSign(user[1].id, user[1].username, user[1].email,
                              IsAdminOf(user[1]))
             shown == [id |-> user[1].id, username |-> user[1].username,
                       email |-> user[1].email, is_admin |-> IsAdminOf(user[1])]
         IN Response("login", NoId, NoId, 200, "", <<shown>>, <<token>>, {})

\* bcrypt.compare is awaited, but the handler touches no shared state after
\* it: the response is decided by the row read before the await
LoginResponse(body) ==
    LET email == body.email
        password == body.password
        user == GetRow(SelectByEmail(users, email))
    IN
    IF Falsy(email) \/ Falsy(password)
    THEN Error("login", NoId, NoId, 400, "Campos obrigatórios faltando")
    ELSE IF user = <<>>
    THEN Error("login", NoId, NoId, 401, "Credenciais inválidas")
    ELSE IF ~BcryptCompare(password, user[1].password_hash)
    THEN Error("login", NoId, NoId, 401, "Credenciais inválidas")
    ELSE LET token == JwtSign(user[1].id, user[1].username, user[1].email,
                              IsAdminOf(user[1]))
             shown == [id |-> user[1].id, username |-> user[1].username,
                       email |-> user[1].email, is_admin |-> IsAdminOf(user[1])]
         IN Response("login", NoId, NoId, 200, "", <<shown>>, <<token>>, {})

Login(body) ==
    /\ res' = LoginResponse(body)
    /\ IF res'.token = <<>> THEN UNCHANGED tokens ELSE tokens' \in Hold(res'.token[1])
    /\ UNCHANGED <<columns, users, nextId, now, pending, deleted, admins0>>

----------------------------------------------------------------------------
(* GET /users *)

List(header) ==
    LET m == AdminRoute(header) IN
    /\ res' = IF ~m.pass THEN Denied("list", NoId, m)
              ELSE Response("list", NoId, m.sub, 200, "", <<>>, <<>>,
                            {WithoutPassword(r) : r \in users})
    /\ UNCHANGED <<columns, users, nextId, now, tokens, pending, deleted, admins0>>

----------------------------------------------------------------------------
(* GET /users/:id *)

Get(header, id) ==
    LET m == OwnerRoute(header, id)
        user == GetRow(SelectById(users, id))
    IN
    /\ res' = IF ~m.pass THEN Denied("get", id, m)
              ELSE IF user = <<>>
              THEN Error("get", id, m.sub, 404, "Usuário não encontrado")
              ELSE Response("get", id, m.sub, 200, "", <<WithoutPassword(user[1])>>,
                            <<>>, {})
    /\ UNCHANGED <<columns, users, nextId, now, tokens, pending, deleted, admins0>>

----------------------------------------------------------------------------
(* POST /users *)

\* the validation as it would be without the test of the length
CreateValidationWithoutLength(body) ==
    LET username == body.username
        password == body.password
        email == body.email
    IN
    IF Falsy(username) \/ Falsy(password) \/ Falsy(email)
    THEN "Campos obrigatórios faltando"
    ELSE ""

\* the validation of the body: the error it ends with, or ""
CreateValidation(body) ==
    LET username == body.username
        password == body.password
        email == body.email
    IN
    IF Falsy(username) \/ Falsy(password) \/ Falsy(email)
    THEN "Campos obrigatórios faltando"
    ELSE IF Len(password) < MinPasswordLength THEN "Senha muito fraca"
    ELSE ""

CreateStart(header, body) ==
    LET m == AdminRoute(header) IN
    IF ~m.pass
    THEN /\ res' = Denied("create", NoId, m)
         /\ UNCHANGED <<columns, users, nextId, now, tokens, pending, deleted, admins0>>
    ELSE IF CreateValidation(body) # ""
    THEN /\ res' = Error("create", NoId, m.sub, 400, CreateValidation(body))
         /\ UNCHANGED <<columns, users, nextId, now, tokens, pending, deleted, admins0>>
    ELSE /\ CanSuspend
         /\ CanCreate
         /\ pending' = pending (+) SetToBag({Suspended("create", NoId, body)})
         /\ UNCHANGED <<columns, users, nextId, now, tokens, res, deleted, admins0>>

\* the values of INSERT INTO users (id, username, password_hash, email)
CreateValues(p, id) ==
    [id |-> id, username |-> p.username, password_hash |-> BcryptHash(p.password),
     email |-> p.email]

CreateFinish(p) ==
    LET id == nextId
        values == CreateValues(p, id)
        prepared == Prepare(DOMAIN values)
        code == IF prepared # "OK" THEN prepared
                ELSE InsertCode(users, InsertedRow(values))
    IN
    /\ p.op = "create"
    /\ pending' = pending (-) SetToBag({p})
    /\ nextId' = nextId + 1
    /\ IF code = "OK"
       THEN /\ users' = users \cup {InsertedRow(values)}
            /\ res' = Response("create", NoId, NoId, 201, "",
                               GetRowWithoutPassword(users', id), <<>>, {})
       ELSE /\ res' = IF IsConstraint(code)
                      THEN Error("create", NoId, NoId, 400, "Email já está em uso")
                      ELSE Error("create", NoId, NoId, 500, "Erro ao criar usuário")
            /\ UNCHANGED users
    /\ UNCHANGED <<columns, now, tokens, deleted, admins0>>

----------------------------------------------------------------------------
(* PUT /users/:id *)

\* the staging as it would be without the branch of password
StagedWithoutPassword(p) ==
    LET named == {c \in {"username", "email"} : p[c] # UNDEFINED}
    IN [c \in named |-> p[c]]

\* the assignments staged for the fields the body names
Staged(p) ==
    LET named == {c \in {"username", "password", "email"} : p[c] # UNDEFINED}
        column(c) == IF c = "password" THEN "password_hash" ELSE c
        value(c) == IF c = "password_hash" THEN BcryptHash(p.password) ELSE p[c]
    IN [c \in {column(f) : f \in named} |-> value(c)]

\* the handler as it would be without the check of updates.length
UpdateApplyWithoutEmptyTest(p) ==
    LET set == Staged(p)
        code == UpdateCode(users, p.id, set)
    IN
    IF code # "OK"
    THEN /\ res' = IF IsConstraint(code)
                   THEN Error("update", p.id, NoId, 400, "Email já está em uso")
                   ELSE Error("update", p.id, NoId, 500, "Erro ao atualizar usuário")
         /\ UNCHANGED users
    ELSE /\ users' = UpdateRows(users, p.id, set)
         /\ res' = LET updatedUser == GetRowWithoutPassword(users', p.id) IN
                   IF updatedUser = <<>>
                   THEN Error("update", p.id, NoId, 500, "Erro ao atualizar usuário")
                   ELSE Response("update", p.id, NoId, 200, "", updatedUser, <<>>, {})

\* the handler from the check of updates.length to the response
UpdateApply(p) ==
    LET set == Staged(p)
        code == UpdateCode(users, p.id, set)
    IN
    IF DOMAIN set = {}
    THEN /\ res' = Error("update", p.id, NoId, 400, "Nenhum campo para atualizar")
         /\ UNCHANGED users
    ELSE IF code # "OK"
    THEN /\ res' = IF IsConstraint(code)
                   THEN Error("update", p.id, NoId, 400, "Email já está em uso")
                   ELSE Error("update", p.id, NoId, 500, "Erro ao atualizar usuário")
         /\ UNCHANGED users
    ELSE /\ users' = UpdateRows(users, p.id, set)
         /\ res' = LET updatedUser == GetRowWithoutPassword(users', p.id) IN
                   IF updatedUser = <<>>
                   THEN Error("update", p.id, NoId, 500, "Erro ao atualizar usuário")
                   ELSE Response("update", p.id, NoId, 200, "", updatedUser, <<>>, {})

UpdateStart(header, id, body) ==
    LET m == OwnerRoute(header, id)
        existingUser == GetRow(SelectById(users, id))
    IN
    IF ~m.pass
    THEN /\ res' = Denied("update", id, m)
         /\ UNCHANGED <<columns, users, nextId, now, tokens, pending, deleted, admins0>>
    ELSE IF existingUser = <<>>
    THEN /\ res' = Error("update", id, m.sub, 404, "Usuário não encontrado")
         /\ UNCHANGED <<columns, users, nextId, now, tokens, pending, deleted, admins0>>
    ELSE IF body.password # UNDEFINED
    THEN /\ CanSuspend
         /\ pending' = pending (+) SetToBag({Suspended("update", id, body)})
         /\ UNCHANGED <<columns, users, nextId, now, tokens, res, deleted, admins0>>
    ELSE /\ UpdateApply(Suspended("update", id, body))
         /\ UNCHANGED <<columns, nextId, now, tokens, pending, deleted, admins0>>

UpdateFinish(p) ==
    /\ p.op = "update"
    /\ pending' = pending (-) SetToBag({p})
    /\ UpdateApply(p)
    /\ UNCHANGED <<columns, nextId, now, tokens, deleted, admins0>>

----------------------------------------------------------------------------
(* DELETE /users/:id *)

\* the handler as it would be without its existence check
DeleteWithoutExistenceTest(header, id) ==
    LET m == AdminRoute(header) IN
    IF ~m.pass
    THEN /\ res' = Denied("delete", id, m)
         /\ UNCHANGED <<columns, users, nextId, now, tokens, pending, deleted, admins0>>
    ELSE /\ users' = DeleteRows(users, id)
         /\ deleted' = deleted \cup {id}
         /\ res' = Error("delete", id, m.sub, 204, "")
         /\ UNCHANGED <<columns, nextId, now, tokens, pending, admins0>>

Delete(header, id) ==
    LET m == AdminRoute(header)
        existingUser == GetRow(SelectById(users, id))
    IN
    IF ~m.pass
    THEN /\ res' = Denied("delete", id, m)
         /\ UNCHANGED <<columns, users, nextId, now, tokens, pending, deleted, admins0>>
    ELSE IF existingUser = <<>>
    THEN /\ res' = Error("delete", id, m.sub, 404, "Usuário não encontrado")
         /\ UNCHANGED <<columns, users, nextId, now, tokens, pending, deleted, admins0>>
    ELSE /\ users' = DeleteRows(users, id)
         /\ deleted' = deleted \cup {id}
         /\ res' = Error("delete", id, m.sub, 204, "")
         /\ UNCHANGED <<columns, nextId, now, tokens, pending, admins0>>

----------------------------------------------------------------------------
(* The clock *)

Tick ==
    /\ now < MaxTime
    /\ now' = now + 1
    /\ UNCHANGED <<columns, users, nextId, tokens, pending, res, deleted, admins0>>

----------------------------------------------------------------------------

\* the header "Bearer <token>"
Bearer(header) == Len(header) = 2 /\ header[1] = Word("Bearer")

\* a request that the middleware stops is tried with one body, which no code
\* reads; so is one whose header has another shape than Bearer <token>
BodiesRead(header, m, bodies) ==
    IF m.pass /\ Bearer(header) THEN bodies ELSE {EmptyBody}

\* the server receives a request and runs its route up to the first await
Request(route) ==
    /\ sent < MaxRequests
    /\ sent' = sent + 1
    /\ route
    /\ UNCHANGED log

\* a suspended handler resumes and runs to its response
Resume(handler) ==
    /\ handler
    /\ UNCHANGED <<sent, log>>

Next ==
    \/ \E body \in NewUserBodies : Request(RegisterStart(body))
    \/ \E p \in BagToSet(pending) : Resume(RegisterFinish(p))
    \/ \E body \in LoginBodies : Request(Login(body))
    \/ \E header \in Headers : Request(List(header))
    \/ \E header \in Headers, id \in Ids : Request(Get(header, id))
    \/ \E header \in Headers :
           \E body \in BodiesRead(header, AdminRoute(header), NewUserBodies) :
               Request(CreateStart(header, body))
    \/ \E p \in BagToSet(pending) : Resume(CreateFinish(p))
    \/ \E header \in Headers, id \in Ids :
           \E body \in BodiesRead(header, OwnerRoute(header, id), UpdateBodies) :
               Request(UpdateStart(header, id, body))
    \/ \E p \in BagToSet(pending) : Resume(UpdateFinish(p))
    \/ \E header \in Headers, id \in Ids : Request(Delete(header, id))
    \/ Tick /\ UNCHANGED <<sent, log>>

Spec == Init /\ [][Next]_vars

----------------------------------------------------------------------------
(* Two concurrent PUT /users/:id of the first account, and nothing else *)

\* a second account a provisioned database may come with
SecondUser ==
    [id |-> 2, username |-> "carol", password_hash |-> BcryptHash("password2"),
     email |-> "b@x.com", is_admin |-> FALSE, created_at |-> 0]

RaceInit ==
    /\ \E a \in BOOLEAN, others \in {{}, {SecondUser}} :
           /\ columns = TableColumns \cup {"is_admin"}
           /\ users = {FirstUser(a)} \cup others
           /\ nextId = 2 + Cardinality(others)
           /\ admins0 = IF a THEN {1} ELSE {}
    /\ tokens = {FirstToken}
    /\ now = 0
    /\ pending = EmptyBag
    /\ res = NoResponse
    /\ sent = 0
    /\ deleted = {}
    /\ log = <<>>

\* the status of a request whose handler is suspended
Unanswered == 0

\* one of the two requests arrives, sent by the owner of the account
RaceRequest(body) ==
    /\ Len(log) < 2
    /\ sent' = sent + 1
    /\ UpdateStart(<<Word("Bearer"), FirstToken>>, 1, body)
    /\ log' = Append(log, [username |-> body.username, password |-> body.password,
                           email |-> body.email,
                           status |-> IF pending' = pending THEN res'.status
                                      ELSE Unanswered])

\* the requests of the log that suspended handler p may belong to
Awaiting(p) ==
    {i \in DOMAIN log : /\ log[i].status = Unanswered
                        /\ log[i].username = p.username
                        /\ log[i].password = p.password
                        /\ log[i].email = p.email}

\* the suspended handler of request i resumes
RaceResume(p, i) ==
    /\ i \in Awaiting(p)
    /\ UpdateFinish(p)
    /\ log' = [log EXCEPT ![i].status = res'.status]
    /\ UNCHANGED sent

RaceNext ==
    \/ \E body \in UpdateBodies : RaceRequest(body)
    \/ \E p \in BagToSet(pending), i \in DOMAIN log : RaceResume(p, i)

SpecRace == RaceInit /\ [][RaceNext]_vars

----------------------------------------------------------------------------
(* Requests, for the statements below *)

\* the step suspends a handler of the route named
Suspends(op) ==
    /\ pending' # pending
    /\ \E p \in BagToSet(pending') :
           p.op = op /\ CopiesIn(p, pending') > CopiesIn(p, pending)

\* OwnerStep and AdminStep say of a step what every step of the routes
\* named has: the request counter advances, and the handler answers under
\* its own name or suspends.  They are stated first in the definitions and
\* statements below so that the evaluation of a step of another route ends
\* there.
OwnerStep ==
    /\ sent' = sent + 1
    /\ res'.op \in {"get", "update"} \/ Suspends("update")

AdminStep ==
    /\ sent' = sent + 1
    /\ res'.op \in {"list", "create", "delete"} \/ Suspends("create")

\* a request to GET /users/:id or PUT /users/:id, with the bodies Next sends
OwnerRequest(header, id) ==
    /\ OwnerStep
    /\ Request(\/ /\ res'.op = "get"
                  /\ Get(header, id)
               \/ /\ res'.op = "update" \/ Suspends("update")
                  /\ \E body \in BodiesRead(header, OwnerRoute(header, id), UpdateBodies) :
                      UpdateStart(header, id, body))

\* a request to GET /users, POST /users or DELETE /users/:id, with the
\* bodies Next sends
AdminRequest(header) ==
    /\ AdminStep
    /\ Request(\/ /\ res'.op = "list"
                  /\ List(header)
               \/ /\ res'.op = "create" \/ Suspends("create")
                  /\ \E body \in BodiesRead(header, AdminRoute(header), NewUserBodies) :
                         CreateStart(header, body)
               \/ /\ res'.op = "delete"
                  /\ \E id \in Ids : Delete(header, id))

\* a request to one of the five protected routes
ProtectedRequest(header) ==
    \/ AdminRequest(header)
    \/ \E id \in Ids : OwnerRequest(header, id)

\* the headers from which the gate extracts token t
Carrying(t) == {header \in Headers : HeaderToken(header) = <<t>>}

----------------------------------------------------------------------------
(* C1: a request to a protected route that carries a correctly signed,     *)
(* unexpired token of a user whose row was deleted is answered 401 and     *)
(* leaves the table as it was, whatever happened since the deletion; and   *)
(* no row ever has the id of a deleted user again.                         *)
C1_DeletedSubjectRejected ==
    [][\A t \in {x \in tokens : x.userId \in deleted /\ JwtVerify(x) = "OK"} :
          \A header \in Carrying(t) :
              ProtectedRequest(header) =>
                  /\ res'.status = 401
                  /\ users' = users
                  /\ pending' = pending]_vars
    /\ [](\A r \in users : r.id \notin deleted)

\* a deleted user's token was refused after a new user took the email
C1_Witness ==
    /\ res.status = 401
    /\ res.error = "Usuário não encontrado"
    /\ \E t \in tokens :
           /\ t.userId \in deleted
           /\ JwtVerify(t) = "OK"
           /\ \E r \in users : r.email = t.email /\ r.id # t.userId

----------------------------------------------------------------------------
\* the handler ran: it answered, or it is suspended in bcrypt.hash
ReachedHandler ==
    \/ Suspends("update")
    \/ res'.status \in {200, 400, 404, 500}

\* the request was refused and nothing changed
RefusedByOwnerGuard ==
    /\ res'.status = 403
    /\ res'.error = "Acesso negado"
    /\ users' = users
    /\ pending' = pending

\* the headers that pass authenticateToken
Callers == {header \in Headers : authenticateToken(header).pass}

\* the row authenticateToken puts in req.user
Caller(header) == authenticateToken(header).user[1]

(* C2: on GET /users/:id and PUT /users/:id an authenticated caller whose  *)
(* stored is_admin is false is answered 403, with nothing changed, for     *)
(* every path id other than the caller's own, whether a row has that id or *)
(* not; for the caller's own id, and for every path id when the caller's   *)
(* stored is_admin is true, the request reaches the handler.               *)
\* Both halves are stated by contraposition: a step that is no refusal is
\* no request of a non-admin for another id, and a step in which no handler
\* ran is no request of an admin or of the owner.
C2_AdminOrOwner ==
    [][OwnerStep /\ (~RefusedByOwnerGuard \/ ~ReachedHandler) =>
       \A header \in Callers :
           LET caller == Caller(header) IN
           /\ ~RefusedByOwnerGuard /\ ~caller.is_admin =>
                  \A id \in Ids \ {caller.id} : ~OwnerRequest(header, id)
           /\ ~ReachedHandler =>
                  \A id \in IF caller.is_admin THEN Ids ELSE {caller.id} :
                      ~OwnerRequest(header, id)]_vars

\* a non-admin was refused an update of another id while a second row exists
C2_Witness ==
    /\ res.op = "update"
    /\ res.status = 403
    /\ Cardinality(users) = 2
    /\ \A r \in users : ~IsAdminOf(r)

----------------------------------------------------------------------------
\* the request was refused: nothing was read out, and nothing changed
RefusedByAdminGuard ==
    /\ res'.status = 403
    /\ res'.error = "Acesso negado. Apenas administradores."
    /\ res'.list = {}
    /\ res'.user = <<>>
    /\ users' = users
    /\ pending' = pending

(* C3: GET /users, POST /users and DELETE /users/:id requested by an       *)
(* authenticated caller whose stored is_admin is false are answered 403:   *)
(* no row is read out, created or deleted, whatever is_admin claim the     *)
(* caller's token carries.                                                 *)
\* Stated by contraposition: a step that is no refusal is no request of a
\* non-admin caller to one of the three routes.
C3_AdminOnly ==
    [][AdminStep /\ ~RefusedByAdminGuard =>
       \A header \in Callers :
          ~Caller(header).is_admin => ~AdminRequest(header)]_vars

\* a caller whose token claims is_admin but whose row does not was refused
C3_Witness ==
    /\ res.op \in {"list", "create", "delete"}
    /\ res.status = 403
    /\ \E t \in tokens :
           /\ t.is_admin
           /\ JwtVerify(t) = "OK"
           /\ \E r \in users : r.id = t.userId /\ ~IsAdminOf(r)

----------------------------------------------------------------------------
(* C4: at every moment no two rows of the users table have the same email, *)
(* and no two have the same id.                                            *)
C4_UniqueEmailAndId ==
    \A r, q \in users : r # q => r.email # q.email /\ r.id # q.id

\* with two rows in the table, an update to the other row's email was refused
C4_Witness ==
    /\ Cardinality(users) = 2
    /\ res.op = "update"
    /\ res.status = 400
    /\ res.error = "Email já está em uso"

----------------------------------------------------------------------------
\* the ids of the rows that are administrators
Admins(table) == {r.id : r \in {x \in table : IsAdminOf(x)}}

(* C5: every row that is an administrator was one in the initial table: no *)
(* request inserts a row with is_admin true or changes the is_admin of a   *)
(* row; and when the initial table has no administrator, GET /users,       *)
(* POST /users and DELETE /users/:id never answer with success.            *)
C5_NoNewAdministrator ==
    /\ [](Admins(users) \subseteq admins0)
    /\ [](admins0 = {} =>
             ~(res.op \in {"list", "create", "delete"}
               /\ res.status \in {200, 201, 204}))
    /\ [][\A r \in users, q \in users' :
              r.id = q.id => IsAdminOf(q) = IsAdminOf(r)]_vars

\* without an administrator, two accounts exist and an admin route refused one
C5_Witness ==
    /\ admins0 = {}
    /\ Cardinality(users) = 2
    /\ res.op \in {"list", "create", "delete"}
    /\ res.status = 403

----------------------------------------------------------------------------
(* C6: a Register request whose three fields are present, whose password   *)
(* has at least 8 characters and whose email no row has is answered 201    *)
(* with a token and a user that has the submitted email and is_admin false,*)
(* and adds exactly one row, with that email, to the table.                *)
C6_RegisterSucceeds ==
    [][\A p \in BagToSet(pending) :
          /\ p.op = "register"
          /\ SelectByEmail(users, p.email) = {}
          /\ RegisterFinish(p)
          => /\ res'.status = 201
             /\ res'.token # <<>>
             /\ res'.user # <<>>
             /\ res'.user[1].email = p.email
             /\ ~res'.user[1].is_admin
             /\ \E r \in users' : /\ r \notin users
                                  /\ r.email = p.email
                                  /\ users' = users \cup {r}]_vars

----------------------------------------------------------------------------
\* the token of the last response passes the gate as the user of the response
TokenAuthenticates ==
    LET a == authenticateToken(<<Word("Bearer"), res.token[1]>>) IN
    /\ a.pass
    /\ a.user[1].id = res.user[1].id

\* the row of the user of the last response has email e and password p
StoredWith(e, password) ==
    \E r \in users : /\ r.id = res.user[1].id
                     /\ r.email = e
                     /\ BcryptCompare(password, r.password_hash)

(* C7: when Register answers 201 for email e and password p, the row it    *)
(* inserted has email e and a hash that p matches, and the token it        *)
(* returns passes the gate as the registered user; and as long as a row    *)
(* has email e and a hash that p matches, Login with e and p answers 200   *)
(* with a token and a user of that row's id.                               *)
C7_RegisterThenLogin ==
    /\ [][\A p \in BagToSet(pending) :
             RegisterFinish(p) /\ res'.status = 201
             => TokenAuthenticates' /\ StoredWith(p.email, p.password)']_vars
    /\ [][\A body \in LoginBodies, r \in users :
             /\ sent' = sent + 1
             /\ res'.op = "login"
             /\ r.email = body.email
             /\ BcryptCompare(body.password, r.password_hash)
             /\ Login(body)
             => /\ res'.status = 200
                /\ res'.token # <<>>
                /\ res'.token[1].userId = r.id
                /\ res'.user[1].id = r.id]_vars

\* where only Register makes accounts, a later account logged in
C7_Witness ==
    /\ admins0 = {}
    /\ res.op = "login"
    /\ res.status = 200
    /\ res.user[1].id # 1

----------------------------------------------------------------------------
\* a field is missing, or the password is shorter than 8 characters
Invalid(body) ==
    \/ body.username = UNDEFINED
    \/ body.password = UNDEFINED
    \/ body.email = UNDEFINED
    \/ Len(body.password) < 8

\* the step answers 400 and changes nothing else
Rejected ==
    /\ res'.status = 400
    /\ res'.token = <<>>
    /\ res'.user = <<>>
    /\ users' = users
    /\ tokens' = tokens
    /\ pending' = pending

(* C8: a Register request, or a Create request of an administrator, whose  *)
(* username, password or email is missing or whose password has fewer than *)
(* 8 characters is answered 400: the table is as before, no token is       *)
(* issued and no handler is left suspended.                                *)
\* Stated by contraposition: a step that is no rejection is neither a
\* Register nor an administrator's Create with an invalid body.
C8_InvalidBodyRejected ==
    [][/\ sent' = sent + 1
       /\ res'.op \in {"register", "create"} \/ Suspends("register") \/ Suspends("create")
       /\ ~Rejected
       => /\ \A body \in {b \in NewUserBodies : Invalid(b)} : ~RegisterStart(body)
          /\ \A header \in {h \in Headers : AdminRoute(h).pass} :
                 \A body \in {b \in NewUserBodies : Invalid(b)} :
                     ~CreateStart(header, body)]_vars

\* an administrator's Create with a short password was refused
C8_Witness ==
    /\ res.op = "create"
    /\ res.status = 400
    /\ res.error = "Senha muito fraca"

----------------------------------------------------------------------------
(* C9: of the Register and Create requests that insert the same email, one *)
(* after the other or overlapping, the first to reach its INSERT is        *)
(* answered 201 and every later one 400 with the duplicate-email error;    *)
(* the table then has exactly one row with that email, unchanged.          *)
C9_OneOfTwoSucceeds ==
    [][\A p \in BagToSet(pending) :
          RegisterFinish(p) \/ CreateFinish(p)
          => IF SelectByEmail(users, p.email) = {}
             THEN /\ res'.status = 201
                  /\ Cardinality(SelectByEmail(users', p.email)) = 1
             ELSE /\ res'.status = 400
                  /\ res'.error = "Email já está em uso"
                  /\ users' = users]_vars

----------------------------------------------------------------------------
\* both fields are present and no row has the email
UnknownEmail(body) ==
    /\ body.email # UNDEFINED
    /\ body.password # UNDEFINED
    /\ \A r \in users : r.email # body.email

\* a row has the email and the password does not match its hash
WrongPassword(body) ==
    /\ body.password # UNDEFINED
    /\ \E r \in users : /\ r.email = body.email
                         /\ ~BcryptCompare(body.password, r.password_hash)

(* C10: a Login request with an email no row has and one with the email of *)
(* a row and a password that does not match are answered alike: status     *)
(* 401 and the same body, with no token and no user.                       *)
C10_SameRefusal ==
    /\ [][sent' = sent + 1 /\ res'.op = "login" =>
          \A body \in LoginBodies :
             (UnknownEmail(body) \/ WrongPassword(body)) /\ Login(body)
             => /\ res' = [op |-> "login", status |-> 401,
                           error |-> "Credenciais inválidas",
                           user |-> <<>>, token |-> <<>>, list |-> {}]
                /\ tokens' = tokens]_vars
    /\ [](\A one, other \in LoginBodies :
             UnknownEmail(one) /\ WrongPassword(other)
             => LoginResponse(one) = LoginResponse(other))

\* a Login was refused while one email has a row and the other has none
C10_Witness ==
    /\ res.op = "login"
    /\ res.status = 401
    /\ \E one, other \in LoginBodies : UnknownEmail(one) /\ WrongPassword(other)

----------------------------------------------------------------------------
\* the users a response shows: its user and the elements of its list
Shown(response) == {response.user[i] : i \in DOMAIN response.user} \cup response.list

(* C11: no response of any endpoint, whatever its status, shows a user     *)
(* with a password_hash field, and neither the token of a response nor any *)
(* token a client holds has a password_hash claim.                         *)
C11_NoPasswordHashInResponses ==
    /\ \A u \in Shown(res) : "password_hash" \notin DOMAIN u
    /\ \A i \in DOMAIN res.token : "password_hash" \notin DOMAIN res.token[i]
    /\ \A t \in tokens : "password_hash" \notin DOMAIN t

\* an administrator listed two rows, each of which stores a hash
C11_Witness ==
    /\ res.op = "list"
    /\ res.status = 200
    /\ Cardinality(res.list) = 2
    /\ \A r \in users : "password_hash" \in DOMAIN r

----------------------------------------------------------------------------
(* C12: a request to a protected route whose Authorization header is       *)
(* absent or is not of the form Bearer <token> is answered 401 for a       *)
(* missing token, and neither the table nor the suspended handlers change. *)
C12_OnlyBearerForm ==
    [][\A header \in {h \in Headers : ~Bearer(h)} :
          ProtectedRequest(header)
          => /\ res'.status = 401
             /\ res'.error = "Token não fornecido"
             /\ users' = users
             /\ pending' = pending]_vars

----------------------------------------------------------------------------
\* the gate stopped the request: an error answer, and nothing else changes
StoppedWith(status) ==
    /\ res'.status = status
    /\ res'.user = <<>>
    /\ res'.list = {}
    /\ users' = users
    /\ pending' = pending

(* C13: a request to a protected route whose token fails verification, by  *)
(* its signature or by its expiry, is answered 403 whether or not a row    *)
(* has the token's subject id; one whose token verifies is answered 401    *)
(* with nothing changed when no row has the subject id, and is not         *)
(* answered 401 when a row has it.                                         *)
\* Each case is stated by contraposition.
C13_VerifyBeforeLookup ==
    [][OwnerStep \/ AdminStep =>
       \A header \in {h \in Headers : HeaderToken(h) # <<>>} :
          LET t == HeaderToken(header)[1] IN
          IF JwtVerify(t) # "OK"
          THEN ~StoppedWith(403) => ~ProtectedRequest(header)
          ELSE IF SelectById(users, t.userId) = {}
          THEN ~StoppedWith(401) => ~ProtectedRequest(header)
          ELSE ~(Suspends("create") \/ Suspends("update") \/ res'.status # 401)
               => ~ProtectedRequest(header)]_vars

\* an expired token whose subject was deleted was answered 403
C13_Witness ==
    /\ res.status = 403
    /\ res.error = "Token expirado"
    /\ \E t \in tokens : t.userId \in deleted /\ JwtVerify(t) = "TokenExpiredError"

----------------------------------------------------------------------------
\* the row with id p.id has the values p names and is otherwise as before,
\* and the other rows are as before
OnlyNamedChanged(p) ==
    \E old \in users, new \in users' :
        /\ old.id = p.id
        /\ new.id = p.id
        /\ users' \ {new} = users \ {old}
        /\ new.is_admin = old.is_admin
        /\ new.created_at = old.created_at
        /\ new.username = IF p.username # UNDEFINED THEN p.username ELSE old.username
        /\ new.email = IF p.email # UNDEFINED THEN p.email ELSE old.email
        /\ new.password_hash = IF p.password # UNDEFINED THEN BcryptHash(p.password)
                               ELSE old.password_hash

(* C14: an Update that answers 200 changes, in the row of the path id,     *)
(* only the fields its body names (password_hash for password): id,        *)
(* is_admin, created_at and the fields not named keep their values, and    *)
(* every other row is unchanged.  The first conjunct is the Update that    *)
(* resumes after hashing, the second the one that runs without suspending. *)
C14_OnlyNamedFieldsChange ==
    /\ [][\A p \in BagToSet(pending) :
             UpdateFinish(p) /\ res'.status = 200 => OnlyNamedChanged(p)]_vars
    /\ [][sent' = sent + 1 /\ res'.op = "update" /\ res'.status = 200 =>
          \A header \in Callers, id \in Ids :
             \A body \in {b \in UpdateBodies : b.password = UNDEFINED} :
                 UpdateStart(header, id, body)
                 => OnlyNamedChanged(Suspended("update", id, body))]_vars

\* of two rows one was renamed by an Update and the other kept its name
C14_Witness ==
    /\ res.op = "update"
    /\ res.status = 200
    /\ \E r, q \in users : r.username = "bob" /\ q.username = "alice"

----------------------------------------------------------------------------
(* C15: an Update that passes the gate and the guard, on a path id that    *)
(* has a row, with a body that names none of username, password and email  *)
(* is answered 400, and no row changes and no handler is left suspended.   *)
C15_EmptyUpdateRejected ==
    [][OwnerStep =>
       \A header \in Callers, id \in {r.id : r \in users} :
          OwnerRoute(header, id).pass =>
              \A body \in {b \in UpdateBodies : /\ b.username = UNDEFINED
                                                /\ b.password = UNDEFINED
                                                /\ b.email = UNDEFINED} :
                  UpdateStart(header, id, body)
                  => /\ res'.status = 400
                     /\ res'.error = "Nenhum campo para atualizar"
                     /\ users' = users
                     /\ pending' = pending]_vars

\* an Update without fields was refused while the table has rows
C15_Witness ==
    /\ res.op = "update"
    /\ res.status = 400
    /\ res.error = "Nenhum campo para atualizar"
    /\ users # {}

----------------------------------------------------------------------------
\* the email p names is the email of a row other than the one p updates
Collides(p) ==
    /\ p.email # UNDEFINED
    /\ \E r \in users : r.id # p.id /\ r.email = p.email

\* the email p names is the email of the row p updates
OwnEmail(p) ==
    /\ p.email # UNDEFINED
    /\ \E r \in users : r.id = p.id /\ r.email = p.email

\* what C16 says of the store update of p
CollisionRefused(p) ==
    /\ Collides(p) => /\ res'.status = 400
                      /\ res'.error = "Email já está em uso"
                      /\ users' = users
    /\ OwnEmail(p) => /\ res'.status = 200
                      /\ OnlyNamedChanged(p)

(* C16: an Update of an existing row whose body names the email of another *)
(* row is answered 400 for a duplicate email and writes none of the fields *)
(* of its body; one that names the row's own email is answered 200.  The   *)
(* first conjunct is the Update that resumes after hashing, the second the *)
(* one that runs without suspending.                                       *)
C16_DuplicateEmailOnUpdate ==
    /\ [][\A p \in BagToSet(pending) :
             UpdateFinish(p) /\ SelectById(users, p.id) # {} => CollisionRefused(p)]_vars
    /\ [][sent' = sent + 1 /\ res'.op = "update" =>
          \A header \in Callers, id \in {r.id : r \in users} :
             OwnerRoute(header, id).pass =>
                 \A body \in {b \in UpdateBodies : b.password = UNDEFINED} :
                     UpdateStart(header, id, body)
                     => CollisionRefused(Suspended("update", id, body))]_vars

\* no handler is suspended, two rows have their own emails, and the last
\* Update was refused for a duplicate email
C16_Witness ==
    /\ pending = EmptyBag
    /\ res.op = "update"
    /\ res.error = "Email já está em uso"
    /\ \E r, q \in users : r.email = "a@x.com" /\ q.email = "b@x.com"

----------------------------------------------------------------------------
\* the step answers 404 and changes nothing else
NotFound ==
    /\ res'.status = 404
    /\ res'.error = "Usuário não encontrado"
    /\ users' = users
    /\ deleted' = deleted
    /\ pending' = pending

(* C17: GET /users/:id, PUT /users/:id with any body, and DELETE           *)
(* /users/:id, requested by an administrator for an id that has no row,    *)
(* are answered 404 and change nothing.                                    *)
\* Stated by contraposition: a step that is no such answer is none of
\* these requests.  A request is looked for only in the steps that answer
\* under its name or suspend its handler, as all its steps do.
C17_MissingIdNotFound ==
    [][(OwnerStep \/ AdminStep) /\ ~NotFound =>
       \A header \in Callers :
          Caller(header).is_admin =>
              \A id \in Ids \ {r.id : r \in users} :
                  /\ res'.op = "get" => ~Get(header, id)
                  /\ res'.op = "delete" => ~Delete(header, id)
                  /\ res'.op = "update" \/ Suspends("update") =>
                         \A body \in UpdateBodies : ~UpdateStart(header, id, body)]_vars

\* an Update for an id without a row was answered 404
C17_Witness ==
    /\ res.op = "update"
    /\ res.status = 404
    /\ admins0 # {}

----------------------------------------------------------------------------
\* the administrators among the callers
AdminCallers == {header \in Callers : Caller(header).is_admin}

(* C18: a Delete by an administrator of an id that has a row is answered   *)
(* 204 and removes that row and no other; from then on no row has that id, *)
(* and Get and Delete of it by an administrator are answered 404; and a    *)
(* Register or Create that, after a deletion, inserts an email no row has  *)
(* is answered 201 and adds a row whose id no row had before.              *)
C18_DeleteThenRecreate ==
    /\ [][sent' = sent + 1 /\ res'.op = "delete" =>
          \A header \in AdminCallers, r \in users :
             Delete(header, r.id)
             => /\ res'.status = 204
                /\ res'.user = <<>>
                /\ users' = users \ {r}
                /\ Cardinality(users') = Cardinality(users) - 1]_vars
    /\ [](\A id \in deleted : SelectById(users, id) = {})
    /\ [][sent' = sent + 1 /\ res'.op \in {"get", "delete"} =>
          \A header \in AdminCallers, id \in deleted :
             Get(header, id) \/ Delete(header, id)
             => res'.status = 404 /\ users' = users]_vars
    /\ [][\A p \in BagToSet(pending) :
             /\ deleted # {}
             /\ SelectByEmail(users, p.email) = {}
             /\ RegisterFinish(p) \/ CreateFinish(p)
             => /\ res'.status = 201
                /\ \E r \in users' : /\ users' = users \cup {r}
                                     /\ r.email = p.email
                                     /\ r.id \notin deleted
                                     /\ SelectById(users, r.id) = {}]_vars

\* the first account was deleted and its email belongs to a later account
C18_Witness ==
    /\ 1 \in deleted
    /\ res.status = 201
    /\ \E r \in users : r.email = "a@x.com" /\ r.id # 1

----------------------------------------------------------------------------
\* a suspended Update whose user was deleted while it was hashing
Orphaned(p) == p.op = "update" /\ p.id \in deleted /\ SelectById(users, p.id) = {}

(* C19: an Update that resumes from hashing after a Delete of its user has *)
(* completed is answered 404 with the error of a missing user, the row     *)
(* stays deleted, and the late UPDATE creates or alters no row.            *)
C19_LateUpdateNotFound ==
    [][\A p \in BagToSet(pending) :
          Orphaned(p) /\ UpdateFinish(p)
          => /\ res'.status = 404
             /\ res'.error = "Usuário não encontrado"
             /\ SelectById(users', p.id) = {}
             /\ users' = users]_vars

----------------------------------------------------------------------------
\* both requests of the race are answered
RaceOver == Len(log) = 2 /\ \A i \in DOMAIN log : log[i].status # Unanswered

\* the account the two requests update, as it was before them
Original == FirstUser(1 \in admins0)

\* the value request i writes into column f, UNDEFINED when it names none
Written(i, f) ==
    IF f = "password_hash"
    THEN IF log[i].password = UNDEFINED THEN UNDEFINED
         ELSE BcryptHash(log[i].password)
    ELSE log[i][f]

\* request i names a field, no null, and no email that another account has
Applicable(i) ==
    /\ \E f \in {"username", "email", "password_hash"} : Written(i, f) # UNDEFINED
    /\ \A f \in {"username", "email", "password_hash"} : Written(i, f) # NULL
    /\ \A r \in users : r.id # 1 => r.email # log[i].email

\* what C20 says of the two answers and of the final store
RaceOutcome ==
    /\ \A i \in DOMAIN log : log[i].status = 200
    /\ Cardinality(SelectById(users, 1)) = 1
    /\ \A r \in SelectById(users, 1), f \in {"username", "email", "password_hash"} :
          /\ r[f] \in {Original[f]} \cup ({Written(i, f) : i \in DOMAIN log} \ {UNDEFINED})
          /\ \A i \in DOMAIN log :
                /\ Written(i, f) # UNDEFINED
                /\ Written(3 - i, f) = UNDEFINED
                => r[f] = Written(i, f)

(* C20, as stated: after two concurrent Updates of the same existing user, *)
(* in every interleaving, both are answered 200 and the store holds one    *)
(* row with that id, each of whose username, email and password_hash is    *)
(* the original value or one written by an update, a field named by only   *)
(* one update having that update's value.                                  *)
C20_BothSucceed == RaceOver => RaceOutcome

(* C20, amended: the same, of two Updates each of which names at least one *)
(* field, sets none to null and sets no email that another account has.    *)
C20_ApplicableUpdatesBothSucceed ==
    RaceOver /\ (\A i \in DOMAIN log : Applicable(i)) => RaceOutcome

\* both handlers suspended and the request that came first wrote last
C20_Witness ==
    /\ RaceOver
    /\ \A i \in DOMAIN log : Applicable(i) /\ log[i].password # UNDEFINED
    /\ log[1].email = "b@x.com"
    /\ log[2].email = "a@x.com"
    /\ \E r \in users : r.id = 1 /\ r.email = "b@x.com"

----------------------------------------------------------------------------
\* the passwords that clients send
Passwords == {"password1", "password2", "short"}

\* the passwords POST /auth/login accepts for the row
LogsIn(row) == {password \in Passwords : BcryptCompare(password, row.password_hash)}

(* C21: in every state, every password with which a live user can log in   *)
(* is at least 8 characters long: no Register, Create or Update has stored *)
(* the hash of a shorter one.                                              *)
C21_NoShortPassword ==
    \A r \in users : \A password \in LogsIn(r) : Len(password) >= MinPasswordLength

----------------------------------------------------------------------------
\* the tokens that pass the gate
Accepted == {t \in tokens : authenticateToken(<<Word("Bearer"), t>>).pass}

\* the identity the gate attaches for token t is the stored row of its subject
AttachesStoredRow(t) ==
    \E r \in users :
        /\ r.id = t.userId
        /\ Caller(<<Word("Bearer"), t>>) =
               [id |-> r.id, username |-> r.username, email |-> r.email,
                is_admin |-> r.is_admin]

\* what POST /auth/login answers to a body that names email and password
LoginDecidedByStoredHash(body) ==
    \A r \in SelectByEmail(users, body.email) :
        IF body.password \in LogsIn(r)
        THEN res'.status = 200 /\ res'.user[1].id = r.id
        ELSE res'.status = 401

(* C22: a token that passes the gate still passes it after an Update of    *)
(* its subject's username, email or password; the identity the gate        *)
(* attaches is the id, username, email and is_admin of the subject's       *)
(* stored row, not the claims of the token; an Update that names a         *)
(* password and is answered 200 leaves the row with a hash that the new    *)
(* password matches and the old one does not; and Login is answered 200    *)
(* for a password the stored hash matches and 401 for any other.           *)
C22_UpdateKeepsTokens ==
    /\ [][res'.op = "update" /\ users' # users =>
          \A t \in Accepted : authenticateToken(<<Word("Bearer"), t>>)'.pass]_vars
    /\ [](\A t \in Accepted : AttachesStoredRow(t))
    /\ [][\A p \in BagToSet(pending) :
             UpdateFinish(p) /\ res'.status = 200
             => \A r \in SelectById(users', p.id) : LogsIn(r) = {p.password}]_vars
    /\ [][sent' = sent + 1 /\ res'.op = "login" =>
          \A body \in LoginBodies :
             ~Falsy(body.email) /\ ~Falsy(body.password) /\ Login(body)
             => LoginDecidedByStoredHash(body)]_vars

\* a token signed for alice passes the gate as bob, the name the row has now,
\* and Login has just succeeded with the password an Update stored
C22_Witness ==
    /\ res.op = "login"
    /\ res.status = 200
    /\ \E r \in users : /\ r.id = res.user[1].id
                        /\ LogsIn(r) = {"short"}
                        /\ \E t \in Accepted : /\ t.userId = r.id
                                               /\ t.username = "alice"
                                               /\ r.username = "bob"

----------------------------------------------------------------------------
\* the response is the duplicate-email error
DuplicateEmail(response) ==
    response.status = 400 /\ response.error = "Email já está em uso"

(* C23: Register, Create and Update answer 400 'Email já está em uso' only *)
(* when the email of the request is the email of another live row; a       *)
(* failure of another constraint of the table, such as NOT NULL on an      *)
(* Update setting username or email to null, is not answered so.           *)
C23_DuplicateEmailOnlyOnCollision ==
    [][DuplicateEmail(res') =>
       /\ \A p \in BagToSet(pending) :
             /\ RegisterFinish(p) \/ CreateFinish(p) => SelectByEmail(users, p.email) # {}
             /\ UpdateFinish(p) => Collides(p)
       /\ sent' = sent + 1 /\ res'.op = "update" /\ pending' = pending =>
             \A header \in Callers, id \in Ids, body \in UpdateBodies :
                UpdateStart(header, id, body) => Collides(Suspended("update", id, body))]_vars

====
